---- MODULE Spec2Model ----
(***************************************************************************)
(* State-machine model of the audio-call QA batch pipelines of the         *)
(* repository:                                                             *)
(*   prog = "A"  src/ImprovedVersionFinal.py lines 1-307: per-folder main, *)
(*               sequential process_batch, retry-wrapped remote calls      *)
(*   prog = "B"  src/ImprovedVersionFinal.py lines 309-517: one directory, *)
(*               process_batch with asyncio.gather, retry-wrapped calls    *)
(*   prog = "C"  src/process-audio-transcribe.py: one directory, one       *)
(*               asyncio.gather over all files, no retry                   *)
(*   prog = "L"  src/recentAsPerHuzaifa-upgraded.py: the legacy runner     *)
(* The remote model calls and the file system are the environment: every   *)
(* attempt of a call draws its outcome from a small set.                   *)
(***************************************************************************)
EXTENDS Integers, Sequences, FiniteSets, TLC

VARIABLES
    prog,          \* which script runs
    batch_size,    \* config["batch_size"] / the batch_size argument
    subdirs,       \* the folders discovered under the root, in discovery order
    mainPc,        \* position of main / of the __main__ block
    di,            \* index into subdirs of the folder being processed
    audio_files,   \* audio_files of the current folder (or directory)
    total_files,   \* total_files of main
    bi,            \* the loop variable i of "for i in range(0, len, batch_size)"
    tasks,         \* the process_file coroutines of the current batch
    batch_results, \* the list "results" of the sequential process_batch
    all_results,   \* all_results / results of main
    output,        \* the writes to output/*.json, oldest first
    output_json,   \* legacy runner: output_json
    failed_files,  \* legacy runner: failed_files
    final_failed,  \* legacy runner: final_failed_files of retry_failed_files
    lqueue,        \* legacy runner: paths still to process in the running pass
    lraised,       \* legacy runner: a coroutine of the running group raised
    groups,        \* the batches main has handed to process_batch, oldest first
    calls          \* legacy runner: the calls of process_single_audio per path

vars == << prog, batch_size, subdirs, mainPc, di, audio_files, total_files, bi,
           tasks, batch_results, all_results, output,
           output_json, failed_files, final_failed, lqueue, lraised, groups,
           calls >>

------------------------------------------------------------------------------
(* Bounds of the model *)

MaxFiles == 3
MaxFolders == 2
MaxBatch == 2
MaxLegacyFiles == 2
MaxRuns == 2

(* stop_after_attempt(3) *)
MaxAttempts == 3

Progs == {"A", "B", "C", "L"}

------------------------------------------------------------------------------
(* Paths *)

Path(d, n) == [dir |-> d, name |-> n]

(* os.path.basename: the path without its directory part *)
Basename(p) == Path(0, p.name)

(* Variant: the reports written for folder d so far are listed with its      *)
(* audio files                                                               *)
ListAudioWithReports(d) ==
    [j \in 1..(subdirs[d].n + Cardinality({w \in 1..Len(output) : output[w].dir = d}))
        |-> Path(d, j)]

(* os.listdir(subdir) filtered by extension: the audio files of folder d *)
ListAudio(d) == [j \in 1..subdirs[d].n |-> Path(d, j)]

(* Variant: the loop variable advances past one more file *)
RangeStepSkipping(i, size) == i + size + 1

(* range(0, len(audio_files), batch_size): the value of i after i *)
RangeStep(i, size) == i + size

(* Variant: the slice audio_files[i:i + batch_size + 1] *)
SliceOneMore(fs, i, size) ==
    LET hi == IF i + size + 1 < Len(fs) THEN i + size + 1 ELSE Len(fs)
    IN  IF i >= hi THEN << >> ELSE SubSeq(fs, i + 1, hi)

(* audio_files[i:i + batch_size], i 0-based *)
Slice(fs, i, size) ==
    LET hi == IF i + size < Len(fs) THEN i + size ELSE Len(fs)
    IN  IF i >= hi THEN << >> ELSE SubSeq(fs, i + 1, hi)

------------------------------------------------------------------------------
(* Text and JSON values *)

IsSpace(c) == c = " "

RECURSIVE LStrip(_)
LStrip(s) == IF s # << >> /\ IsSpace(Head(s)) THEN LStrip(Tail(s)) ELSE s

RECURSIVE RStrip(_)
RStrip(s) ==
    IF s # << >> /\ IsSpace(s[Len(s)]) THEN RStrip(SubSeq(s, 1, Len(s) - 1)) ELSE s

(* str.strip() *)
Strip(s) == RStrip(LStrip(s))

JStr(n) == [t |-> "str", len |-> n]
JList(n) == [t |-> "list", len |-> n]
JDict(d) == [t |-> "dict", d |-> d]

(* The texts an analysis response can carry; json.loads of each *)
AnalysisTexts ==
    {"good", "empty_fields", "no_summary", "no_evaluation", "json_list", "garbage"}

JsonValid(text) == text # "garbage"

JsonLoads(text) ==
    CASE text = "good" ->
           JDict([call_summary |-> JStr(1), qa_evaluation |-> JList(1)])
      [] text = "empty_fields" ->
           JDict([call_summary |-> JStr(0), qa_evaluation |-> JList(0)])
      [] text = "no_summary" -> JDict([qa_evaluation |-> JList(1)])
      [] text = "no_evaluation" -> JDict([call_summary |-> JStr(1)])
      [] OTHER -> JList(0)

------------------------------------------------------------------------------
(* Exceptions *)

Exc(type, arg) == [type |-> type, arg |-> arg]

ExceptionSubclasses ==
    {"APIError", "OSError", "RuntimeError", "ValueError", "JSONDecodeError",
     "KeyError", "TypeError", "AttributeError", "UnboundLocalError", "RetryError"}

(* str(e): a KeyError shows the repr of its key *)
Str(e) == IF e.type = "KeyError" THEN "'" \o e.arg \o "'" ELSE e.arg

Returned(v) == [raised |-> FALSE, value |-> v]
Raised(e) == [raised |-> TRUE, exc |-> e]

------------------------------------------------------------------------------
(* The remote calls: what one attempt meets *)

NoEnv == [kind |-> "none"]

(* Outcomes of one attempt of transcribe_audio: the file cannot be read (or  *)
(* uploaded), the upload returns nothing (upload_file variants only), the    *)
(* model call fails, the response has no text, the response has text.        *)
TranscribeTexts == { << " " >>, << "h", " " >> }

TranscribeEnv(p) ==
    {[kind |-> k] : k \in {"io_error", "remote_error", "no_text"}}
      \cup (IF p = "A" THEN {} ELSE {[kind |-> "upload_none"]})
      \cup {[kind |-> "text", text |-> s] : s \in TranscribeTexts}

(* Outcomes of one attempt of analyze_transcript *)
AnalyzeEnv ==
    {[kind |-> k] : k \in {"remote_error", "no_text"}}
      \cup {[kind |-> "text", doc |-> d] : d \in AnalysisTexts}

(* The body of transcribe_audio (inside the retry wrapper) *)
TranscribeAudio(p, env) ==
    CASE env.kind = "io_error" -> Raised(Exc("OSError", "No such file or directory"))
      [] env.kind = "upload_none" -> Raised(Exc("RuntimeError", "Upload failed"))
      [] env.kind = "remote_error" -> Raised(Exc("APIError", "503 UNAVAILABLE"))
      [] env.kind = "no_text" ->
           IF p = "A"
             THEN Returned(Strip(<< >>))
             ELSE Raised(Exc("AttributeError", "'NoneType' object has no attribute 'strip'"))
      [] OTHER -> Returned(Strip(env.text))

(* The body of analyze_transcript (inside the retry wrapper) *)
AnalyzeTranscript(p, env) ==
    CASE env.kind = "remote_error" -> Raised(Exc("APIError", "503 UNAVAILABLE"))
      [] env.kind = "no_text" ->
           IF p = "A"
             THEN Raised(Exc("ValueError", "No response text from analysis model"))
             ELSE Raised(Exc("TypeError", "the JSON object must be str, bytes or bytearray, not NoneType"))
      [] OTHER ->
           IF ~JsonValid(env.doc)
             THEN Raised(Exc("JSONDecodeError", "Expecting value: line 1 column 1 (char 0)"))
             ELSE Returned(JsonLoads(env.doc))

(* qa_json[key] *)
Subscript(v, key) ==
    IF v.t = "dict"
      THEN IF key \in DOMAIN v.d
             THEN Returned(v.d[key])
             ELSE Raised(Exc("KeyError", key))
      ELSE Raised(Exc("TypeError", "list indices must be integers or slices, not str"))

------------------------------------------------------------------------------
(* The retry decorator of tenacity around both calls *)

(* Only the scripts of ImprovedVersionFinal.py decorate the two calls *)
Retrying(p) == p \in {"A", "B"}

(* Variant: stop only after the attempt beyond the third *)
StopAfterFourth(n) == n > MaxAttempts

(* stop=stop_after_attempt(3) *)
StopAfterAttempt(n) == n >= MaxAttempts

(* No retry= argument: tenacity retries on every Exception *)
RetryIf(e) == e.type \in ExceptionSubclasses

(* wait=wait_exponential(multiplier=1, min=4, max=10), in seconds *)
WaitMultiplier == 1
WaitMin == 4
WaitMax == 10

Min2(a, b) == IF a < b THEN a ELSE b

Max2(a, b) == IF a > b THEN a ELSE b

(* Variant: the exponential wait without its floor *)
WaitExponentialNoFloor(n) == Min2(WaitMultiplier * 2 ^ (n - 1), WaitMax)

(* wait_exponential: the sleep after attempt number n has failed,            *)
(* max(max(0, min), min(multiplier * 2 ** (n - 1), max))                     *)
WaitExponential(n) ==
    Max2(Max2(0, WaitMin), Min2(WaitMultiplier * 2 ^ (n - 1), WaitMax))

(* Variant: reraise=False, the last failure wrapped in a RetryError *)
RaiseRetryError(e) == [type |-> "RetryError", arg |-> "RetryError[" \o e.type \o "]"]

(* reraise=True: when the attempts are used up the wrapper raises the last   *)
(* attempt's own exception                                                   *)
Reraise(e) == e

------------------------------------------------------------------------------
(* process_file *)

Elapsed == "elapsed"

SuccessResult(p, f, transcript, summary, evaluation) ==
    CASE p = "A" ->
           [FileName |-> Basename(f), FilePath |-> f, Success |-> TRUE,
            Transcription |-> transcript, CallSummary |-> summary,
            QA_Evaluation |-> evaluation]
      [] p = "B" ->
           [FileName |-> Basename(f), FilePath |-> f, Success |-> TRUE,
            Transcription |-> transcript, CallSummary |-> summary,
            QA_Evaluation |-> evaluation, Timing |-> Elapsed]
      [] OTHER ->
           [FileName |-> Basename(f), FilePath |-> f, Success |-> TRUE,
            CallSummary |-> summary, QA_Evaluation |-> evaluation]

FailureResult(p, f, e) ==
    IF p = "C"
      THEN [FileName |-> Basename(f), FilePath |-> f, Success |-> FALSE,
            Error |-> Str(e)]
      ELSE [FileName |-> Basename(f), FilePath |-> f, Success |-> FALSE,
            Error |-> Str(e), Timing |-> Elapsed]

(* Variant: "except ValueError as e" *)
CatchesValueError(e) == e.type = "ValueError"

(* "except Exception as e" *)
Catches(e) == e.type \in ExceptionSubclasses

(* Variant: no throttle sleep after a stage *)
SleepsNever(p) == FALSE

(* The throttle sleeps after each stage exist in the first script only *)
Sleeps(p) == p = "A"

(* A coroutine of process_file.  slept holds the waits of the retry wrapper  *)
(* between the attempts of the call that is running or that the coroutine    *)
(* ended in; attempt and last belong to the retry call                       *)
(* that is running or has just returned.  A finished coroutine keeps its     *)
(* result and the place it ended in: "transcribe" or "analyze" (the call     *)
(* raised), "result" (building the result raised), "return".                 *)
Task(pc, f) ==
    [pc |-> pc, file |-> f, attempt |-> 0, last |-> NoEnv, transcript |-> << >>,
     qa_json |-> << >>, result |-> << >>, exc |-> << >>, ended_in |-> "none",
     slept |-> << >>]

(* The exception e, raised in stage `at`, reaches the try block of           *)
(* process_file                                                              *)
Except(p, t, at, e) ==
    IF Catches(e)
      THEN [Task("done", t.file) EXCEPT !.result = << FailureResult(p, t.file, e) >>,
                                        !.ended_in = at]
      ELSE [Task("raised", t.file) EXCEPT !.exc = << e >>, !.ended_in = at]

(* One attempt of a retry-wrapped call that raised e as attempt number n.    *)
(* A coroutine that ends here keeps the number and the outcome of its last   *)
(* attempt.                                                                  *)
AfterFailure(p, t, n, env, e) ==
    IF Retrying(p) /\ RetryIf(e) /\ ~StopAfterAttempt(n)
      THEN [t EXCEPT !.attempt = n, !.last = env,
                     !.slept = Append(@, WaitExponential(n))]
      ELSE [Except(p, t, t.pc, IF Retrying(p) THEN Reraise(e) ELSE e)
              EXCEPT !.attempt = n, !.last = env, !.slept = t.slept]

(* the throttle sleep after transcription, then the call of                  *)
(* analyze_transcript                                                        *)
StartAnalysis(t) ==
    [t EXCEPT !.pc = "analyze", !.attempt = 0, !.last = NoEnv, !.slept = << >>]

(* the throttle sleep after analysis, then the result dictionary *)
BuildResult(p, t) ==
    LET qa == t.qa_json[1]
        s == Subscript(qa, "call_summary")
        q == Subscript(qa, "qa_evaluation")
    IN  IF s.raised THEN Except(p, t, "result", s.exc)
        ELSE IF q.raised THEN Except(p, t, "result", q.exc)
        ELSE [Task("done", t.file) EXCEPT
                !.result = << SuccessResult(p, t.file, t.transcript, s.value, q.value) >>,
                !.ended_in = "return"]

(* transcript = await transcribe_audio(file_path): one attempt *)
TranscribeStep(p, t, env) ==
    LET n == t.attempt + 1
        r == TranscribeAudio(p, env)
        ok == [t EXCEPT !.pc = "transcribed", !.attempt = n, !.last = env,
                        !.transcript = r.value]
    IN  IF r.raised THEN AfterFailure(p, t, n, env, r.exc)
        ELSE IF Sleeps(p) THEN ok
        ELSE StartAnalysis(ok)

(* qa_json = await analyze_transcript(transcript): one attempt *)
AnalyzeStep(p, t, env) ==
    LET n == t.attempt + 1
        r == AnalyzeTranscript(p, env)
        ok == [t EXCEPT !.pc = "analyzed", !.attempt = n, !.last = env,
                        !.qa_json = << r.value >>]
    IN  IF r.raised THEN AfterFailure(p, t, n, env, r.exc)
        ELSE IF Sleeps(p) THEN ok
        ELSE BuildResult(p, ok)

Ended(t) == t.pc \in {"done", "raised"}

------------------------------------------------------------------------------
(* process_batch *)

(* Variant: the results collected last-ended-slot first *)
GatherReversed(ts) == [i \in 1..Len(ts) |-> ts[Len(ts) + 1 - i].result[1]]

(* asyncio.gather: the results in the order of the awaitables given, *)
(* whatever the order in which they ended                                    *)
Gather(ts) == [i \in 1..Len(ts) |-> ts[i].result[1]]

AnyRaised(ts) == \E k \in 1..Len(ts) : ts[k].pc = "raised"

AllEnded(ts) == \A k \in 1..Len(ts) : Ended(ts[k])

(* Variant: every coroutine of the batch is started at once *)
BatchTasksAllStarted(p, batch) == [k \in 1..Len(batch) |-> Task("transcribe", batch[k])]

(* The coroutines of a batch: the sequential process_batch awaits them one   *)
(* after the other, gather starts them all                                   *)
BatchTasks(p, batch) ==
    [k \in 1..Len(batch) |->
        Task(IF p = "A" /\ k > 1 THEN "new" ELSE "transcribe", batch[k])]

------------------------------------------------------------------------------
(* What main writes *)

(* Variant: a file counts as successful only with a non-empty Transcription *)
CountTranscribed(results, flag) ==
    IF flag
      THEN Cardinality({i \in 1..Len(results) :
                          results[i].Success /\ results[i].Transcription # << >>})
      ELSE Cardinality({i \in 1..Len(results) : ~results[i].Success})

(* sum(1 for r in results if r["Success"]) and its negation *)
Count(results, flag) == Cardinality({i \in 1..Len(results) : results[i].Success = flag})

(* Of every written result the model keeps FilePath and Success *)
Entry(r) == [FilePath |-> r.FilePath, Success |-> r.Success]

Entries(results) == [i \in 1..Len(results) |-> Entry(results[i])]

(* The summary dictionary of main *)
Summary(total, results) ==
    [TotalFiles |-> total,
     SuccessfulFiles |-> Count(results, TRUE),
     FailedFiles |-> Count(results, FALSE),
     Results |-> Entries(results)]

(* One write of a report file *)
Write(path, d, doc) == [path |-> path, dir |-> d, doc |-> doc]

------------------------------------------------------------------------------
(* Initial states: the script, its batch size and the directory tree *)

Names == {"x", "y"}

Folder(base, n) == [base |-> base, n |-> n]

RECURSIVE Sum(_)
Sum(sizes) == IF sizes = << >> THEN 0 ELSE Head(sizes).n + Sum(Tail(sizes))

(* Folders holding audio files, at most MaxFolders of them and MaxFiles      *)
(* files in all; two folders at different depths may share their base name   *)
Trees ==
    { t \in UNION {[1..k -> {Folder(b, n) : b \in Names, n \in 1..MaxFiles}] :
                       k \in 0..MaxFolders} :
        /\ Sum(t) <= MaxFiles
        /\ (t # << >> => t[1].base = "x") }

(* One directory, which may hold no audio file *)
Directories == { << [base |-> "x", n |-> n] >> : n \in 0..MaxFiles }

(* The legacy runner walks the whole tree under the base directory: the     *)
(* base directory itself (depth 0), folders directly under it (depth 1) and  *)
(* folders below those (depth 2); top is the name of the folder directly     *)
(* under the base directory on the way to the folder                         *)
WalkOrder ==
    << [top |-> "", depth |-> 0], [top |-> "x", depth |-> 1],
       [top |-> "x", depth |-> 2], [top |-> "y", depth |-> 1] >>

LFolder(w, n) == [top |-> WalkOrder[w].top, depth |-> WalkOrder[w].depth, n |-> n]

LegacyTrees ==
    { << >> }
      \cup { << LFolder(w, n) >> : w \in 1..Len(WalkOrder), n \in 1..MaxLegacyFiles }
      \cup (IF MaxFolders < 2 THEN {} ELSE
             { << LFolder(v, m), LFolder(w, n) >> :
                  v \in 1..Len(WalkOrder), w \in 1..Len(WalkOrder),
                  m \in 1..MaxLegacyFiles, n \in 1..MaxLegacyFiles } )

Init ==
    /\ prog \in Progs
    /\ batch_size \in (IF prog = "C" THEN {0} ELSE 1..MaxBatch)
    /\ subdirs \in (CASE prog = "A" -> Trees
                     [] prog = "L" ->
                          { t \in LegacyTrees :
                              /\ Sum(t) <= MaxLegacyFiles
                              /\ Len(t) = 2 =>
                                    \E v, w \in 1..Len(WalkOrder) :
                                        /\ v < w
                                        /\ t[1].top = WalkOrder[v].top
                                        /\ t[1].depth = WalkOrder[v].depth
                                        /\ t[2].top = WalkOrder[w].top
                                        /\ t[2].depth = WalkOrder[w].depth }
                     [] OTHER -> Directories)
    /\ mainPc = "start"
    /\ di = 0
    /\ audio_files = << >>
    /\ total_files = 0
    /\ bi = 0
    /\ tasks = << >>
    /\ batch_results = << >>
    /\ all_results = << >>
    /\ output = << >>
    /\ output_json = << >>
    /\ failed_files = << >>
    /\ final_failed = << >>
    /\ lqueue = << >>
    /\ lraised = FALSE
    /\ groups = << >>
    /\ calls = [p \in UNION {{Path(d, j) : j \in 1..subdirs[d].n} :
                                 d \in 1..Len(subdirs)} |-> 0]

legacyVars == << output_json, failed_files, final_failed, lqueue, lraised, calls >>

------------------------------------------------------------------------------
(* main of the per-folder script (prog A) *)

(* os.walk: the folders with audio files; none: log an error and return *)
A_Start ==
    /\ prog = "A" /\ mainPc = "start"
    /\ IF subdirs = << >>
         THEN mainPc' = "done" /\ di' = di
         ELSE mainPc' = "folder" /\ di' = 1
    /\ UNCHANGED << prog, batch_size, subdirs, audio_files, total_files, bi, tasks,
                    batch_results, all_results, output >>
    /\ UNCHANGED legacyVars
    /\ UNCHANGED groups

(* Leave folder di: the next folder, or the end of main *)
NextFolder ==
    IF di < Len(subdirs)
      THEN mainPc' = "folder" /\ di' = di + 1
      ELSE mainPc' = "done" /\ di' = di

(* Variant: the results of the folders before stay in the list *)
CarriedResults == all_results

(* "all_results = []" at the start of every folder *)
FreshResults == << >>

(* "for subdir in subdirs": reset the results, list the folder *)
A_Folder ==
    /\ prog = "A" /\ mainPc = "folder"
    /\ all_results' = FreshResults
    /\ audio_files' = ListAudio(di)
    /\ bi' = 0
    /\ IF ListAudio(di) = << >>
         THEN total_files' = 0 /\ NextFolder
         ELSE total_files' = Len(ListAudio(di)) /\ mainPc' = "batch" /\ di' = di
    /\ UNCHANGED << prog, batch_size, subdirs, tasks, batch_results,
                    output >>
    /\ UNCHANGED legacyVars
    /\ groups' = << >>

(* "batch = audio_files[i:i + batch_size]; await process_batch(batch)" *)
Batch ==
    /\ prog \in {"A", "B"} /\ mainPc = "batch"
    /\ tasks' = BatchTasks(prog, Slice(audio_files, bi, batch_size))
    /\ batch_results' = << >>
    /\ mainPc' = "in_batch"
    /\ UNCHANGED << prog, batch_size, subdirs, di, audio_files, total_files, bi,
                    all_results, output >>
    /\ UNCHANGED legacyVars
    /\ groups' = Append(groups, Slice(audio_files, bi, batch_size))

------------------------------------------------------------------------------
(* The steps of one process_file coroutine *)

Running == mainPc = "in_batch" /\ prog \in {"A", "B", "C"}

SetTask(k, t) ==
    /\ tasks' = [tasks EXCEPT ![k] = t]
    /\ UNCHANGED << prog, batch_size, subdirs, mainPc, di, audio_files, total_files,
                    bi, batch_results, all_results, output >>
    /\ UNCHANGED legacyVars
    /\ UNCHANGED groups

Transcribe(k) ==
    /\ Running /\ tasks[k].pc = "transcribe"
    /\ \E env \in TranscribeEnv(prog) : SetTask(k, TranscribeStep(prog, tasks[k], env))

Throttle1(k) ==
    /\ Running /\ Sleeps(prog) /\ tasks[k].pc = "transcribed"
    /\ SetTask(k, StartAnalysis(tasks[k]))

Analyze(k) ==
    /\ Running /\ tasks[k].pc = "analyze"
    /\ \E env \in AnalyzeEnv : SetTask(k, AnalyzeStep(prog, tasks[k], env))

Throttle2(k) ==
    /\ Running /\ Sleeps(prog) /\ tasks[k].pc = "analyzed"
    /\ SetTask(k, BuildResult(prog, tasks[k]))

------------------------------------------------------------------------------
(* The sequential process_batch (prog A) *)

(* Variant: the loop over the files stops at the first failed file *)
MoreFilesUnlessFailed(ts, k, r) == k < Len(ts) /\ r.Success

(* "for file in files": another file follows the k-th, whatever result r the *)
(* k-th gave                                                                 *)
MoreFiles(ts, k, r) == k < Len(ts)

(* "result = await process_file(file); results.append(result)", up to the    *)
(* sleep between the files; an exception of process_file would leave main    *)
A_Collect ==
    /\ prog = "A" /\ mainPc = "in_batch"
    /\ LET k == Len(batch_results) + 1 IN
         /\ k <= Len(tasks) /\ Ended(tasks[k])
         /\ IF tasks[k].pc = "raised"
              THEN /\ mainPc' = "crashed"
                   /\ UNCHANGED batch_results
              ELSE /\ batch_results' = Append(batch_results, tasks[k].result[1])
                   /\ mainPc' = "file_delay"
    /\ UNCHANGED << prog, batch_size, subdirs, di, audio_files, total_files, bi,
                    tasks, all_results, output >>
    /\ UNCHANGED legacyVars
    /\ UNCHANGED groups

(* "await asyncio.sleep(2)" is over: the next file, or "return results" *)
A_FileDelay ==
    /\ prog = "A" /\ mainPc = "file_delay"
    /\ LET k == Len(batch_results) IN
         IF MoreFiles(tasks, k, batch_results[k])
           THEN /\ tasks' = [tasks EXCEPT ![k + 1].pc = "transcribe"]
                /\ mainPc' = "in_batch"
           ELSE /\ tasks' = tasks
                /\ mainPc' = "extend"
    /\ UNCHANGED << prog, batch_size, subdirs, di, audio_files, total_files, bi,
                    batch_results, all_results, output >>
    /\ UNCHANGED legacyVars
    /\ UNCHANGED groups

(* The concurrent process_batch (prog B): "return await asyncio.gather(...)"  *)
B_Gather ==
    /\ prog = "B" /\ mainPc = "in_batch"
    /\ AllEnded(tasks)
    /\ IF AnyRaised(tasks)
         THEN mainPc' = "crashed" /\ batch_results' = batch_results
         ELSE mainPc' = "extend" /\ batch_results' = Gather(tasks)
    /\ UNCHANGED << prog, batch_size, subdirs, di, audio_files, total_files, bi,
                    tasks, all_results, output >>
    /\ UNCHANGED legacyVars
    /\ UNCHANGED groups

(* "await asyncio.sleep(10)" after every batch exists in the per-folder      *)
(* script only                                                               *)
Cooldown(p) == p = "A"

(* Variant: the loop over the batches ends after its first turn *)
LoopNextWriteEarly ==
    /\ bi' = RangeStep(bi, batch_size)
    /\ mainPc' = "write"

(* The next turn of "for i in range(0, len(audio_files), batch_size)", or    *)
(* the end of the loop                                                       *)
LoopNext ==
    /\ bi' = RangeStep(bi, batch_size)
    /\ mainPc' = IF RangeStep(bi, batch_size) < Len(audio_files) THEN "batch" ELSE "write"

(* "all_results.extend(batch_results)"; prog A then sleeps, prog B goes on   *)
(* with the loop at once                                                     *)
Extend ==
    /\ prog \in {"A", "B"} /\ mainPc = "extend"
    /\ all_results' = all_results \o batch_results
    /\ IF Cooldown(prog)
         THEN mainPc' = "cooldown" /\ bi' = bi
         ELSE LoopNext
    /\ tasks' = << >>
    /\ batch_results' = << >>
    /\ UNCHANGED << prog, batch_size, subdirs, di, audio_files, total_files, output >>
    /\ UNCHANGED legacyVars
    /\ UNCHANGED groups

(* prog A: the cooldown sleep is over *)
A_Cooldown ==
    /\ prog = "A" /\ mainPc = "cooldown"
    /\ LoopNext
    /\ UNCHANGED << prog, batch_size, subdirs, di, audio_files, total_files, tasks,
                    batch_results, all_results, output >>
    /\ UNCHANGED legacyVars
    /\ UNCHANGED groups

(* Variant: no report for a folder without a successful file *)
SkipReportNoSuccess(results) == Count(results, TRUE) = 0

(* "if not all_results: continue" *)
SkipReport(results) == results = << >>

(* prog A: "if not all_results: continue", the summary, json.dump to         *)
(* output/<basename of the folder>.json                                      *)
A_Write ==
    /\ prog = "A" /\ mainPc = "write"
    /\ IF SkipReport(all_results)
         THEN output' = output
         ELSE output' = Append(output,
                  Write(subdirs[di].base, di, Summary(total_files, all_results)))
    /\ NextFolder
    /\ UNCHANGED << prog, batch_size, subdirs, audio_files, total_files, bi, tasks,
                    batch_results, all_results >>
    /\ UNCHANGED legacyVars
    /\ UNCHANGED groups

------------------------------------------------------------------------------
(* main of the one-directory scripts (prog B, prog C) *)

(* prog B: list the directory, "results = []", enter the loop *)
B_Start ==
    /\ prog = "B" /\ mainPc = "start"
    /\ di' = 1
    /\ audio_files' = [j \in 1..subdirs[1].n |-> Path(1, j)]
    /\ all_results' = << >>
    /\ bi' = 0
    /\ mainPc' = IF subdirs[1].n > 0 THEN "batch" ELSE "write"
    /\ UNCHANGED << prog, batch_size, subdirs, total_files, tasks,
                    batch_results, output >>
    /\ UNCHANGED legacyVars
    /\ UNCHANGED groups

(* prog B: the summary, json.dump to output/all_calls.json, the final log    *)
(* line, which divides by len(audio_files)                                   *)
B_Write ==
    /\ prog = "B" /\ mainPc = "write"
    /\ output' = Append(output,
           Write("all_calls", di, Summary(Len(audio_files), all_results)))
    /\ mainPc' = IF Len(audio_files) = 0 THEN "crashed" ELSE "done"
    /\ UNCHANGED << prog, batch_size, subdirs, di, audio_files, total_files, bi,
                    tasks, batch_results, all_results >>
    /\ UNCHANGED legacyVars
    /\ UNCHANGED groups

(* prog C: list the directory and gather one process_file per file *)
C_Start ==
    /\ prog = "C" /\ mainPc = "start"
    /\ di' = 1
    /\ audio_files' = [j \in 1..subdirs[1].n |-> Path(1, j)]
    /\ tasks' = BatchTasks(prog, [j \in 1..subdirs[1].n |-> Path(1, j)])
    /\ mainPc' = "in_batch"
    /\ UNCHANGED << prog, batch_size, subdirs, total_files, bi, batch_results,
                    all_results, output >>
    /\ UNCHANGED legacyVars
    /\ UNCHANGED groups

(* prog C: "results = await asyncio.gather", json.dump(results) *)
C_Gather ==
    /\ prog = "C" /\ mainPc = "in_batch"
    /\ AllEnded(tasks)
    /\ IF AnyRaised(tasks)
         THEN mainPc' = "crashed" /\ UNCHANGED << all_results, output >>
         ELSE /\ mainPc' = "done"
              /\ all_results' = Gather(tasks)
              /\ output' = Append(output,
                     Write("all_calls", di, [Results |-> Entries(Gather(tasks))]))
    /\ UNCHANGED << prog, batch_size, subdirs, di, audio_files, total_files, bi,
                    tasks, batch_results >>
    /\ UNCHANGED legacyVars
    /\ UNCHANGED groups

------------------------------------------------------------------------------

------------------------------------------------------------------------------
(* The legacy runner (prog L) *)

(* What one call of process_single_audio meets *)
SingleEnv ==
    {"upload_error", "upload_none", "generate_error", "no_text", "bad_json",
     "json_list", "ok", "ok_delete_error"}

LegacySuccess(path) ==
    [FileName |-> Basename(path), FilePath |-> path, Success |-> TRUE,
     Message |-> "Processed successfully."]

(* process_single_audio(audio_path, output_json, failed_files): the two      *)
(* lists afterwards and the exception that leaves the coroutine, if any.     *)
(* The last print reads audio_file, which is unbound when upload_file        *)
(* raised and None when it returned nothing; it is skipped by the early      *)
(* return after a JSON decode error.                                         *)
ProcessSingleAudio(path, env, out, failed) ==
    CASE env = "upload_error" ->
           [out |-> out, failed |-> Append(failed, path),
            exc |-> << Exc("UnboundLocalError",
                           "local variable 'audio_file' referenced before assignment") >>]
      [] env = "upload_none" ->
           [out |-> out, failed |-> Append(failed, path),
            exc |-> << Exc("AttributeError",
                           "'NoneType' object has no attribute 'display_name'") >>]
      [] env \in {"generate_error", "no_text", "bad_json", "json_list"} ->
           [out |-> out, failed |-> Append(failed, path), exc |-> << >>]
      [] env = "ok" ->
           [out |-> Append(out, LegacySuccess(path)), failed |-> failed, exc |-> << >>]
      [] OTHER ->
           [out |-> Append(out, LegacySuccess(path)), failed |-> Append(failed, path),
            exc |-> << >>]

(* The entry retry_failed_files appends when process_single_audio raised *)
RetryFailure(path, e) ==
    [FileName |-> path, Success |-> FALSE,
     Message |-> "Error processing file on retry: " \o Str(e)]

(* fetch_audio_files: os.walk over the base directory *)
RECURSIVE Fetch(_)
Fetch(d) == IF d > Len(subdirs) THEN << >> ELSE ListAudio(d) \o Fetch(d + 1)

(* len(os.path.normpath(path).split(os.sep)): base directory, folders, file *)
PathParts(p) == subdirs[p.dir].depth + 2

RECURSIVE ItemsOf(_, _)
ItemsOf(items, name) ==
    IF items = << >> THEN << >>
    ELSE IF subdirs[Head(items).FilePath.dir].top = name
           THEN << Head(items) >> \o ItemsOf(Tail(items), name)
           ELSE ItemsOf(Tail(items), name)

(* The items organize_output_by_folders keeps: those with a FilePath of at   *)
(* least three parts                                                         *)
RECURSIVE Kept(_)
Kept(items) ==
    IF items = << >> THEN << >>
    ELSE IF "FilePath" \in DOMAIN Head(items) /\ PathParts(Head(items).FilePath) >= 3
           THEN << Head(items) >> \o Kept(Tail(items))
           ELSE Kept(Tail(items))

(* The folder names of folder_data, in insertion order *)
RECURSIVE FolderNames(_, _)
FolderNames(items, seen) ==
    IF items = << >> THEN << >>
    ELSE LET name == subdirs[Head(items).FilePath.dir].top IN
         IF name \in seen
           THEN FolderNames(Tail(items), seen)
           ELSE << name >> \o FolderNames(Tail(items), seen \cup {name})

(* save_output: one file per folder name, holding that folder's items *)
SaveOutput(items) ==
    LET kept == Kept(items)
        names == FolderNames(kept, {})
    IN  [i \in 1..Len(names) |->
            Write(names[i], 0, [Results |-> ItemsOf(kept, names[i])])]

(* __main__: fetch the files; none: print and stop *)
L_Start ==
    /\ prog = "L" /\ mainPc = "start"
    /\ audio_files' = Fetch(1)
    /\ mainPc' = IF Fetch(1) = << >> THEN "done" ELSE "l_batch"
    /\ UNCHANGED << prog, batch_size, subdirs, di, total_files, bi, tasks,
                    batch_results, all_results, output >>
    /\ UNCHANGED legacyVars
    /\ UNCHANGED groups

(* process_audio_files: the coroutines of the next batch, handed to gather *)
L_Batch ==
    /\ prog = "L" /\ mainPc = "l_batch"
    /\ lqueue' = Slice(audio_files, bi, batch_size)
    /\ lraised' = FALSE
    /\ mainPc' = "l_group"
    /\ UNCHANGED << prog, batch_size, subdirs, di, audio_files, total_files, bi,
                    tasks, batch_results, all_results, output, output_json,
                    failed_files, final_failed >>
    /\ groups' = Append(groups, Slice(audio_files, bi, batch_size))
    /\ UNCHANGED calls

(* One coroutine of the batch: process_single_audio never awaits, so the     *)
(* event loop runs the coroutines of a batch one by one, each to its end     *)
L_Single ==
    /\ prog = "L" /\ mainPc = "l_group" /\ lqueue # << >>
    /\ \E env \in SingleEnv :
         LET r == ProcessSingleAudio(Head(lqueue), env, output_json, failed_files) IN
           /\ output_json' = r.out
           /\ failed_files' = r.failed
           /\ lraised' = (lraised \/ r.exc # << >>)
    /\ lqueue' = Tail(lqueue)
    /\ UNCHANGED << prog, batch_size, subdirs, mainPc, di, audio_files, total_files,
                    bi, tasks, batch_results, all_results, output, final_failed >>
    /\ UNCHANGED groups
    /\ calls' = [calls EXCEPT ![Head(lqueue)] = @ + 1]

(* Variant: the retry pass goes over the failed files twice *)
StartRetryTwice(pass, failed) ==
    /\ mainPc' = pass
    /\ lqueue' = failed \o failed
    /\ final_failed' = << >>

(* retry_failed_files begins: "final_failed_files = []" *)
StartRetry(pass, failed) ==
    /\ mainPc' = pass
    /\ lqueue' = failed
    /\ final_failed' = << >>

(* "await asyncio.gather(...)": an exception of a coroutine leaves          *)
(* process_audio_files and asyncio.run; else the next batch, and after the   *)
(* last one "if failed_files: await retry_failed_files(...)"                 *)
L_Gather ==
    /\ prog = "L" /\ mainPc = "l_group" /\ lqueue = << >>
    /\ IF lraised
         THEN mainPc' = "crashed" /\ UNCHANGED << bi, lqueue, final_failed >>
         ELSE /\ bi' = RangeStep(bi, batch_size)
              /\ IF RangeStep(bi, batch_size) < Len(audio_files)
                   THEN mainPc' = "l_batch" /\ UNCHANGED << lqueue, final_failed >>
                   ELSE IF failed_files # << >>
                          THEN StartRetry("l_retry_inner", failed_files)
                          ELSE mainPc' = "l_save" /\ UNCHANGED << lqueue, final_failed >>
    /\ UNCHANGED << prog, batch_size, subdirs, di, audio_files, total_files, tasks,
                    batch_results, all_results, output, output_json, failed_files,
                    lraised >>
    /\ UNCHANGED groups
    /\ UNCHANGED calls

(* retry_failed_files: one turn of "for audio_path in failed_files" *)
L_RetryOne ==
    /\ prog = "L" /\ mainPc \in {"l_retry_inner", "l_retry_outer"} /\ lqueue # << >>
    /\ \E env \in SingleEnv :
         LET r == ProcessSingleAudio(Head(lqueue), env, output_json, final_failed) IN
           /\ output_json' = IF r.exc = << >> THEN r.out
                             ELSE Append(r.out, RetryFailure(Head(lqueue), r.exc[1]))
           /\ final_failed' = r.failed
    /\ lqueue' = Tail(lqueue)
    /\ UNCHANGED << prog, batch_size, subdirs, mainPc, di, audio_files, total_files,
                    bi, tasks, batch_results, all_results, output, failed_files,
                    lraised >>
    /\ UNCHANGED groups
    /\ calls' = [calls EXCEPT ![Head(lqueue)] = @ + 1]

(* retry_failed_files ends: failed_files becomes final_failed_files.  After  *)
(* the pass inside process_audio_files, __main__ runs "if failed_files:      *)
(* asyncio.run(retry_failed_files(...))"; after that pass, save_output.      *)
L_RetryEnd ==
    /\ prog = "L" /\ mainPc \in {"l_retry_inner", "l_retry_outer"} /\ lqueue = << >>
    /\ failed_files' = final_failed
    /\ IF mainPc = "l_retry_inner" /\ final_failed # << >>
         THEN StartRetry("l_retry_outer", final_failed)
         ELSE mainPc' = "l_save" /\ UNCHANGED << lqueue, final_failed >>
    /\ UNCHANGED << prog, batch_size, subdirs, di, audio_files, total_files, bi,
                    tasks, batch_results, all_results, output, output_json, lraised >>
    /\ UNCHANGED groups
    /\ UNCHANGED calls

(* save_output(output_json) *)
L_Save ==
    /\ prog = "L" /\ mainPc = "l_save"
    /\ output' = output \o SaveOutput(output_json)
    /\ mainPc' = "done"
    /\ UNCHANGED << prog, batch_size, subdirs, di, audio_files, total_files, bi,
                    tasks, batch_results, all_results >>
    /\ UNCHANGED legacyVars
    /\ UNCHANGED groups

------------------------------------------------------------------------------

(* The remote calls of a run in which every call succeeds *)
SucceedingTranscribeEnv == {env \in TranscribeEnv("A") : env.kind = "text"}

SucceedingAnalyzeEnv ==
    {env \in AnalyzeEnv : env.kind = "text" /\ env.doc \in {"good", "empty_fields"}}

StubTranscribe(k) ==
    /\ Running /\ tasks[k].pc = "transcribe"
    /\ \E env \in SucceedingTranscribeEnv :
         SetTask(k, TranscribeStep(prog, tasks[k], env))

StubAnalyze(k) ==
    /\ Running /\ tasks[k].pc = "analyze"
    /\ \E env \in SucceedingAnalyzeEnv : SetTask(k, AnalyzeStep(prog, tasks[k], env))

(* The script is run again: a new process starts main over the same folders  *)
(* and the same configuration; the files under output/ are still there       *)
A_Rerun ==
    /\ prog = "A" /\ mainPc = "done"
    /\ subdirs # << >> /\ Len(output) < MaxRuns * Len(subdirs)
    /\ mainPc' = "start"
    /\ di' = 0
    /\ audio_files' = << >>
    /\ total_files' = 0
    /\ bi' = 0
    /\ tasks' = << >>
    /\ batch_results' = << >>
    /\ all_results' = << >>
    /\ groups' = << >>
    /\ UNCHANGED << prog, batch_size, subdirs, output >>
    /\ UNCHANGED legacyVars

InitA == Init /\ prog = "A"

NextRerun ==
    \/ A_Start
    \/ A_Folder
    \/ Batch
    \/ \E k \in 1..Len(tasks) : StubTranscribe(k)
    \/ \E k \in 1..Len(tasks) : Throttle1(k)
    \/ \E k \in 1..Len(tasks) : StubAnalyze(k)
    \/ \E k \in 1..Len(tasks) : Throttle2(k)
    \/ A_Collect
    \/ A_FileDelay
    \/ Extend
    \/ A_Cooldown
    \/ A_Write
    \/ A_Rerun

(* The per-folder script run MaxRuns times with remote calls that succeed *)
SpecRerun == InitA /\ [][NextRerun]_vars

NextA ==
    \/ A_Start
    \/ A_Folder
    \/ Batch
    \/ \E k \in 1..Len(tasks) : Transcribe(k)
    \/ \E k \in 1..Len(tasks) : Throttle1(k)
    \/ \E k \in 1..Len(tasks) : Analyze(k)
    \/ \E k \in 1..Len(tasks) : Throttle2(k)
    \/ A_Collect
    \/ A_FileDelay
    \/ Extend
    \/ A_Cooldown
    \/ A_Write

NextBC ==
    \/ B_Start
    \/ B_Gather
    \/ B_Write
    \/ C_Start
    \/ C_Gather

InitL == Init /\ prog = "L"

NextL ==
    \/ L_Start
    \/ L_Batch
    \/ L_Single
    \/ L_Gather
    \/ L_RetryOne
    \/ L_RetryEnd
    \/ L_Save

Next == NextA \/ NextBC \/ NextL

(* The scripts built on process_file *)
InitP == Init /\ prog # "L"

NextP == NextA \/ NextBC

SpecP == InitP /\ [][NextP]_vars

(* The legacy runner alone *)
SpecL == InitL /\ [][NextL]_vars

(* asyncio.run drives the legacy runner until it returns or raises *)
FairSpecL == SpecL /\ WF_vars(NextL)

(* The per-folder script alone *)
SpecA == InitA /\ [][NextA]_vars

(* asyncio.run drives the coroutine that can run until main returns *)
FairSpecA == SpecA /\ WF_vars(NextA)

(* Every script *)
Spec == Init /\ [][Next]_vars

------------------------------------------------------------------------------
(* Properties *)

Done(t) == t.pc = "done"

Failed(t) == Done(t) /\ ~t.result[1].Success

(* C1: process_file never propagates an exception to its caller: however     *)
(* the transcription stage, the analysis stage or the building of the        *)
(* result fails, the coroutine ends with a result, and that result has       *)
(* Success = FALSE and an Error field.                                       *)
C1_ProcessFileNeverRaises ==
    \A k \in 1..Len(tasks) :
        /\ tasks[k].pc # "raised"
        /\ Done(tasks[k]) =>
             /\ Len(tasks[k].result) = 1
             /\ tasks[k].ended_in # "return" =>
                  /\ tasks[k].result[1].Success = FALSE
                  /\ "Error" \in DOMAIN tasks[k].result[1]

(* A batch in which one file ran out of transcription attempts and another   *)
(* got an analysis without the call_summary key; both hold a failure result  *)
C1_Witness ==
    \E j, k \in 1..Len(tasks) :
        /\ Failed(tasks[j]) /\ tasks[j].ended_in = "transcribe"
        /\ Failed(tasks[k]) /\ tasks[k].ended_in = "result"
        /\ tasks[k].result[1].Error = "'call_summary'"

(* C2: in the legacy runner a failure of a single file, the failure of its   *)
(* upload included, never aborts the batch: process_audio_files returns      *)
(* normally and save_output is reached.                                      *)
C2_LegacyBatchNeverAborts == ~(prog = "L" /\ mainPc = "crashed")

(* C3: the result list main assembles has one result per input file, the     *)
(* i-th result being that of the i-th file, in the sequential script and in  *)
(* the gather script for every order in which the coroutines of a group end. *)
C3_ResultsMatchInputs ==
    prog \in {"A", "B"} =>
        /\ Len(all_results) <= Len(audio_files)
        /\ \A i \in 1..Len(all_results) : all_results[i].FilePath = audio_files[i]
        /\ mainPc = "write" => Len(all_results) = Len(audio_files)
        /\ \A w \in 1..Len(output) :
             /\ Len(output[w].doc.Results) = subdirs[output[w].dir].n
             /\ \A i \in 1..Len(output[w].doc.Results) :
                  output[w].doc.Results[i].FilePath = Path(output[w].dir, i)

(* The gather script about to write the results of three files, processed    *)
(* in a group of two and a group of one                                      *)
C3_Witness ==
    /\ prog = "B" /\ mainPc = "write" /\ batch_size = 2
    /\ Len(all_results) = 3

(* C4: every report main writes has SuccessfulFiles + FailedFiles =          *)
(* TotalFiles, and TotalFiles is the number of entries of Results.           *)
C4_ReportCountsAddUp ==
    prog \in {"A", "B"} =>
        \A w \in 1..Len(output) :
            /\ output[w].doc.SuccessfulFiles + output[w].doc.FailedFiles
                 = output[w].doc.TotalFiles
            /\ output[w].doc.TotalFiles = Len(output[w].doc.Results)

(* A written report that counts a successful and a failed file *)
C4_Witness ==
    /\ prog \in {"A", "B"}
    /\ \E w \in 1..Len(output) :
         /\ output[w].doc.SuccessfulFiles >= 1
         /\ output[w].doc.FailedFiles >= 1

InStage(t) == t.pc \in {"transcribe", "analyze"}

Transient(env) == env.kind = "remote_error"

(* What one step does to a coroutine that is inside a retry-wrapped call *)
RetryStep(t, u) ==
    /\ t.attempt < MaxAttempts
    /\ u.pc = t.pc =>
         /\ u.attempt = t.attempt + 1
         /\ u.attempt < MaxAttempts
    /\ Ended(u) =>
         /\ t.attempt = MaxAttempts - 1
         /\ u.ended_in = t.pc
    /\ u.pc = "transcribed" =>
         /\ t.pc = "transcribe"
         /\ u.attempt = t.attempt + 1
         /\ ~TranscribeAudio(prog, u.last).raised
         /\ u.transcript = TranscribeAudio(prog, u.last).value
    /\ u.pc = "analyzed" =>
         /\ t.pc = "analyze"
         /\ u.attempt = t.attempt + 1
         /\ ~AnalyzeTranscript(prog, u.last).raised
         /\ u.qa_json = << AnalyzeTranscript(prog, u.last).value >>

(* C5: the retry wrapper calls the wrapped operation exactly 3 times when    *)
(* every call fails and then raises; when the k-th call is the first to      *)
(* succeed it has made exactly k calls and returns that call's value; it     *)
(* never makes a 4th call.                                                   *)
C5_RetryCallCount ==
    [][ \A k \in 1..Len(tasks) :
          (k <= Len(tasks') /\ InStage(tasks[k]) /\ tasks'[k] # tasks[k])
             => RetryStep(tasks[k], tasks'[k]) ]_vars

(* One file ran out of transcription attempts; the next file's               *)
(* transcription has just returned from its second call                      *)
C5_Witness ==
    \E j, k \in 1..Len(tasks) :
        /\ Failed(tasks[j]) /\ tasks[j].ended_in = "transcribe"
        /\ tasks[k].pc = "transcribed" /\ tasks[k].attempt = 2

(* C6: the retry wrapper retries only transient remote errors: after an      *)
(* attempt that failed for another reason (analysis text that does not       *)
(* parse, empty analysis response, audio file that cannot be read) the       *)
(* operation is not attempted again.                                         *)
C6_OnlyTransientRetried ==
    \A k \in 1..Len(tasks) :
        (InStage(tasks[k]) /\ tasks[k].attempt >= 1) => Transient(tasks[k].last)

(* C7: a transcription call that returns empty, whitespace-only or missing   *)
(* text makes the file fail: analyze_transcript is never entered with an     *)
(* empty transcript and no successful result carries one.                    *)
C7_EmptyTranscriptFails ==
    \A k \in 1..Len(tasks) :
        /\ tasks[k].pc \in {"analyze", "analyzed"} => tasks[k].transcript # << >>
        /\ (Done(tasks[k]) /\ tasks[k].result[1].Success
              /\ "Transcription" \in DOMAIN tasks[k].result[1])
             => tasks[k].result[1].Transcription # << >>

(* C8: every result with Success = TRUE has a non-empty string as            *)
(* CallSummary and a non-empty list as QA_Evaluation.                        *)
C8_SuccessHasSummaryAndEvaluation ==
    \A k \in 1..Len(tasks) :
        (Done(tasks[k]) /\ tasks[k].result[1].Success) =>
            /\ tasks[k].result[1].CallSummary.t = "str"
            /\ tasks[k].result[1].CallSummary.len > 0
            /\ tasks[k].result[1].QA_Evaluation.t = "list"
            /\ tasks[k].result[1].QA_Evaluation.len > 0

Reported(d) == \E w \in 1..Len(output) : output[w].dir = d

(* C10: main of the per-folder script always runs to completion and has      *)
(* then written a report for every discovered folder, also when every file   *)
(* of a group or of a folder failed.                                         *)
C10_MainCompletes ==
    <>(mainPc = "done" /\ \A d \in 1..Len(subdirs) : Reported(d))

(* main has ended over two folders in which every file failed, and has       *)
(* written the report of each                                                *)
C10_Witness ==
    /\ prog = "A" /\ mainPc = "done" /\ Len(subdirs) = 2
    /\ Reported(1) /\ Reported(2)
    /\ \A w \in 1..Len(output) : output[w].doc.SuccessfulFiles = 0

(* C11: within one run of the per-folder main every report file is written   *)
(* exactly once: no two writes belong to the same folder and no write goes   *)
(* to the path of an earlier write.                                          *)
C11_ReportWrittenOnce ==
    prog = "A" =>
        \A v, w \in 1..Len(output) :
            v # w => /\ output[v].dir # output[w].dir
                     /\ output[v].path # output[w].path

(* The path of the file an entry of output_json is about *)
EntryPath(e) == IF "FilePath" \in DOMAIN e THEN e.FilePath ELSE e.FileName

(* C12: in every report the legacy runner writes, each FilePath occurs in    *)
(* at most one entry.                                                        *)
C12_FilePathUnique ==
    prog = "L" =>
        \A w \in 1..Len(output) :
            \A i, j \in 1..Len(output[w].doc.Results) :
                i # j => output[w].doc.Results[i].FilePath
                           # output[w].doc.Results[j].FilePath

(* C13: when the legacy runner has ended, every file that still failed       *)
(* after the retry passes has an entry with Success = FALSE and a message    *)
(* in a written report.                                                      *)
C13_FailuresSurface ==
    (prog = "L" /\ mainPc = "done") =>
        \A f \in 1..Len(failed_files) :
            \E w \in 1..Len(output) :
                \E i \in 1..Len(output[w].doc.Results) :
                    /\ output[w].doc.Results[i].FilePath = failed_files[f]
                    /\ output[w].doc.Results[i].Success = FALSE
                    /\ "Message" \in DOMAIN output[w].doc.Results[i]

(* The place of a path in the discovery order *)
Pos(path) == CHOOSE i \in 1..Len(audio_files) : audio_files[i] = path

(* C14: the entries of output_json of the legacy runner are in the discovery *)
(* order of their files, also after the retry passes.                        *)
C14_OutputInDiscoveryOrder ==
    prog = "L" =>
        \A i, j \in 1..Len(output_json) :
            i < j => Pos(EntryPath(output_json[i])) <= Pos(EntryPath(output_json[j]))

RECURSIVE Flatten(_)
Flatten(gs) == IF gs = << >> THEN << >> ELSE Head(gs) \o Flatten(Tail(gs))

(* The loop over the batches of the current file list has ended *)
LoopOver == mainPc \in {"write", "done", "l_save", "l_retry_inner", "l_retry_outer"}

(* C15: the groups main dispatches are contiguous slices of the file list    *)
(* of 1 to batch_size files, only the last of them may be smaller than       *)
(* batch_size, and their concatenation in dispatch order is the file list    *)
(* (so every file is in exactly one group).                                  *)
C15_GroupsPartitionFiles ==
    prog \in {"A", "B", "L"} =>
        /\ \A g \in 1..Len(groups) :
              /\ 1 <= Len(groups[g]) /\ Len(groups[g]) <= batch_size
              /\ g < Len(groups) => Len(groups[g]) = batch_size
        /\ Len(Flatten(groups)) <= Len(audio_files)
        /\ Flatten(groups) = SubSeq(audio_files, 1, Len(Flatten(groups)))
        /\ (groups # << >> /\ Len(groups[Len(groups)]) < batch_size)
              => Flatten(groups) = audio_files
        /\ LoopOver => Flatten(groups) = audio_files

(* Three files went out as a group of two followed by a group of one *)
C15_Witness ==
    /\ LoopOver /\ Len(audio_files) = 3 /\ batch_size = 2
    /\ Len(groups) = 2 /\ Len(groups[1]) = 2 /\ Len(groups[2]) = 1

(* A coroutine of process_file that has started and not yet ended *)
InFlight(t) == t.pc \notin {"new", "done", "raised"}

(* C16: in the gather script the coroutines in flight are those of one       *)
(* group, at most batch_size of them, and they start only when main holds    *)
(* the result of every file of the groups before.                            *)
C16_GroupsRunOneAtATime ==
    prog = "B" =>
        /\ Cardinality({k \in 1..Len(tasks) : InFlight(tasks[k])}) <= batch_size
        /\ tasks # << >> =>
              /\ groups # << >>
              /\ [k \in 1..Len(tasks) |-> tasks[k].file] = groups[Len(groups)]
              /\ Len(all_results)
                    = Len(Flatten(SubSeq(groups, 1, Len(groups) - 1)))
              /\ \A i \in 1..Len(all_results) :
                    all_results[i].FilePath = audio_files[i]

(* The second group is in flight after a first group of two has ended *)
C16_Witness ==
    /\ prog = "B" /\ batch_size = 2 /\ Len(groups) = 2
    /\ Len(all_results) = 2 /\ Len(tasks) = 1 /\ InFlight(tasks[1])

C18_CooldownBetweenGroups ==
    [][ (mainPc' = "batch" /\ mainPc # "batch" /\ bi' > 0)
           => mainPc = "cooldown" ]_vars

SuccessOnly == {"Transcription", "CallSummary", "QA_Evaluation"}

LastOutcome(p, t) ==
    IF t.ended_in = "transcribe" THEN TranscribeAudio(p, t.last)
    ELSE AnalyzeTranscript(p, t.last)

(* C20: a coroutine that ended in a retry-wrapped call has made all the      *)
(* attempts, and the Error of its failure result is the message of the       *)
(* exception of the last attempt, not that of a retry error; when the last   *)
(* analysis text did not parse, it is the message of the JSON decode error.  *)
C20_LastFailureReraised ==
    Retrying(prog) =>
        \A k \in 1..Len(tasks) :
            (Ended(tasks[k]) /\ tasks[k].ended_in \in {"transcribe", "analyze"}) =>
                /\ Done(tasks[k])
                /\ tasks[k].attempt = MaxAttempts
                /\ LastOutcome(prog, tasks[k]).raised
                /\ ~tasks[k].result[1].Success
                /\ tasks[k].result[1].Error = Str(LastOutcome(prog, tasks[k]).exc)
                /\ (tasks[k].last.kind = "text" /\ tasks[k].ended_in = "analyze")
                      => tasks[k].result[1].Error
                           = "Expecting value: line 1 column 1 (char 0)"

(* A file failed because its third analysis response did not parse, another  *)
(* because its third transcription attempt met a remote error                *)
C20_Witness ==
    \E j, k \in 1..Len(tasks) :
        /\ Failed(tasks[j]) /\ tasks[j].ended_in = "analyze"
        /\ tasks[j].last.kind = "text" /\ tasks[j].attempt = MaxAttempts
        /\ Failed(tasks[k]) /\ tasks[k].ended_in = "transcribe"
        /\ tasks[k].last.kind = "remote_error"

(* C21: a result of process_file with Success = TRUE records the elapsed     *)
(* time of the file's processing.                                            *)
C21_SuccessRecordsElapsed ==
    \A k \in 1..Len(tasks) :
        (Done(tasks[k]) /\ tasks[k].result[1].Success) =>
            /\ "Timing" \in DOMAIN tasks[k].result[1]
            /\ tasks[k].result[1].Timing = Elapsed

(* min(10, 1 * 2^(n-1)) clamped into the window [4, 10] *)
ClampedBackoff(n) ==
    LET w == IF 2 ^ (n - 1) < 10 THEN 2 ^ (n - 1) ELSE 10
    IN  IF w < 4 THEN 4 ELSE IF w > 10 THEN 10 ELSE w

(* C22: the wait after the n-th failed attempt of a retry-wrapped call is    *)
(* min(10, 2^(n-1)) clamped into [4, 10] seconds; every wait lies in         *)
(* [4, 10], the waits do not decrease, a wait follows each failed attempt    *)
(* but the last, and none follows the third.                                 *)
C22_BackoffWaits ==
    Retrying(prog) =>
        \A k \in 1..Len(tasks) :
            /\ \A n \in 1..Len(tasks[k].slept) :
                  /\ tasks[k].slept[n] = ClampedBackoff(n)
                  /\ 4 <= tasks[k].slept[n] /\ tasks[k].slept[n] <= 10
                  /\ n > 1 => tasks[k].slept[n - 1] <= tasks[k].slept[n]
            /\ InStage(tasks[k]) => Len(tasks[k].slept) = tasks[k].attempt
            /\ tasks[k].pc \in {"transcribed", "analyzed"}
                  => Len(tasks[k].slept) = tasks[k].attempt - 1
            /\ (Ended(tasks[k]) /\ tasks[k].ended_in \in {"transcribe", "analyze"})
                  => /\ tasks[k].attempt = MaxAttempts
                     /\ Len(tasks[k].slept) = MaxAttempts - 1

(* One file failed its transcription three times with two waits between;     *)
(* the next is about to make its third analysis attempt after two waits      *)
C22_Witness ==
    \E j, k \in 1..Len(tasks) :
        /\ Failed(tasks[j]) /\ tasks[j].ended_in = "transcribe"
        /\ tasks[j].slept = << 4, 4 >>
        /\ tasks[k].pc = "analyze" /\ tasks[k].slept = << 4, 4 >>

(* C23: when main is run again over the same folders with remote calls that  *)
(* always succeed, the report of every folder has the TotalFiles,            *)
(* SuccessfulFiles and FailedFiles of that folder's report of the run        *)
(* before.                                                                   *)
C23_RerunSameCounts ==
    \A w \in 1..Len(output) :
        w > Len(subdirs) =>
            LET v == w - Len(subdirs) IN
              /\ output[w].dir = output[v].dir
              /\ output[w].path = output[v].path
              /\ output[w].doc.TotalFiles = output[v].doc.TotalFiles
              /\ output[w].doc.SuccessfulFiles = output[v].doc.SuccessfulFiles
              /\ output[w].doc.FailedFiles = output[v].doc.FailedFiles

(* The second run over two folders has ended and has written both reports *)
C23_Witness ==
    /\ mainPc = "done" /\ Len(subdirs) = 2 /\ Len(output) = 4
    /\ output[3].doc.TotalFiles + output[4].doc.TotalFiles = 3

(* What a step may do to the stage a coroutine of process_file is in *)
StageOrder(t, u) ==
    /\ u.pc = "transcribe" => t.pc \in {"new", "transcribe"}
    /\ u.pc = "transcribed" =>
          /\ t.pc = "transcribe"
          /\ ~TranscribeAudio(prog, u.last).raised
          /\ u.transcript = TranscribeAudio(prog, u.last).value
    /\ (u.pc = "analyze" /\ t.pc # "analyze") =>
          /\ t.pc = "transcribed"
          /\ u.attempt = 0
    /\ u.pc \in {"analyze", "analyzed"} =>
          /\ t.pc \in {"transcribed", "analyze"}
          /\ u.transcript = t.transcript
    /\ u.pc = "analyzed" => t.pc = "analyze"
    /\ (Ended(u) /\ u.ended_in \in {"result", "return"}) => t.pc = "analyzed"
    /\ (Ended(u) /\ u.ended_in = "return") =>
          u.result[1].Transcription = t.transcript
    /\ (Ended(u) /\ u.ended_in = "transcribe") => t.pc = "transcribe"
    /\ (Ended(u) /\ u.ended_in = "analyze") => t.pc = "analyze"

(* C24: in process_file of the per-folder script the stages come in the      *)
(* order transcribe, throttle sleep, analyze, throttle sleep, result:        *)
(* analyze_transcript is entered only out of the sleep that follows a        *)
(* returned transcribe_audio and with the transcript it returned, and a      *)
(* coroutine whose transcription failed on every attempt ends without        *)
(* entering analyze_transcript.                                              *)
C24_StageOrder ==
    [][ \A k \in 1..Len(tasks) :
          (k <= Len(tasks') /\ tasks'[k] # tasks[k] /\ tasks'[k].file = tasks[k].file)
             => StageOrder(tasks[k], tasks'[k]) ]_vars

(* One file ended in its transcription call; the next is inside              *)
(* analyze_transcript with the transcript its transcription returned         *)
C24_Witness ==
    \E j, k \in 1..Len(tasks) :
        /\ Failed(tasks[j]) /\ tasks[j].ended_in = "transcribe"
        /\ tasks[k].pc = "analyze" /\ tasks[k].attempt = 1
        /\ tasks[k].transcript = << "h" >>

(* How far a coroutine of process_file has come *)
Rank(t) ==
    CASE t.pc = "new" -> 0
      [] t.pc = "transcribe" -> 1
      [] t.pc = "transcribed" -> 2
      [] t.pc = "analyze" -> 3
      [] t.pc = "analyzed" -> 4
      [] OTHER -> 5

(* A step of a coroutine makes at most one remote call, in the stage it is   *)
(* in, and never takes the coroutine back to a stage it has left             *)
OneCall(t, u) ==
    /\ Rank(u) >= Rank(t)
    /\ u.pc = t.pc => (InStage(t) /\ u.attempt = t.attempt + 1)
    /\ (u.pc # t.pc /\ ~InStage(t)) => u.attempt \in {0, t.attempt}
    /\ (u.pc # t.pc /\ InStage(t)) => u.attempt = t.attempt + 1

(* C25: for every file process_file makes at most 3 calls of                 *)
(* transcribe_audio's body and at most 3 of analyze_transcript's (each       *)
(* stage is passed once, so at most 6 remote calls), and every coroutine     *)
(* that has started ends with a result.                                      *)
C25_BoundedCallsAndReturn ==
    /\ [](\A k \in 1..Len(tasks) : tasks[k].attempt <= MaxAttempts)
    /\ [][ \A k \in 1..Len(tasks) :
              (k <= Len(tasks') /\ tasks'[k] # tasks[k]
                 /\ tasks'[k].file = tasks[k].file)
                 => OneCall(tasks[k], tasks'[k]) ]_vars
    /\ \A k \in 1..MaxBatch :
          (k <= Len(tasks) /\ InFlight(tasks[k]))
             ~> (k <= Len(tasks) /\ Done(tasks[k]))

(* A file whose transcription returned at the third call has used up the     *)
(* three calls of its analysis and holds its result                          *)
C25_Witness ==
    \E k \in 1..Len(tasks) :
        /\ Failed(tasks[k]) /\ tasks[k].ended_in = "analyze"
        /\ tasks[k].attempt = MaxAttempts
        /\ tasks[k].last.kind = "no_text"

(* C26: the legacy runner calls process_single_audio at most 3 times for     *)
(* any one file (first pass, retry pass of process_audio_files, retry pass   *)
(* of the main block), and every run ends: the main block reaches its end    *)
(* or is left by an exception.                                               *)
C26_LegacyBoundedAndTerminates ==
    /\ [](\A p \in DOMAIN calls : calls[p] <= 3)
    /\ <>(mainPc \in {"done", "crashed"})

(* The run has ended after a file was processed in all three passes *)
C26_Witness ==
    /\ prog = "L" /\ mainPc = "done"
    /\ \E p \in DOMAIN calls : calls[p] = 3

RECURSIVE Written(_)
Written(ws) ==
    IF ws = << >> THEN << >> ELSE Head(ws).doc.Results \o Written(Tail(ws))

(* C27: when save_output has run, every entry of output_json is in a         *)
(* written folder file and the files hold as many entries as output_json,    *)
(* so that no entry is dropped and none is written twice.                    *)
C27_NoEntryDropped ==
    (prog = "L" /\ mainPc = "done" /\ audio_files # << >>) =>
        /\ \A i \in 1..Len(output_json) :
              \E j \in 1..Len(Written(output)) : Written(output)[j] = output_json[i]
        /\ Len(Written(output)) = Len(output_json)

(* C28: main of the gather script on a directory without audio files is not  *)
(* left by an exception, and ends having written one report with            *)
(* TotalFiles = 0, SuccessfulFiles = 0, FailedFiles = 0 and no results.      *)
C28_EmptyDirectoryCompletes ==
    (prog = "B" /\ subdirs[1].n = 0) =>
        /\ mainPc # "crashed"
        /\ mainPc = "done" =>
              /\ Len(output) = 1
              /\ output[1].doc.TotalFiles = 0
              /\ output[1].doc.SuccessfulFiles = 0
              /\ output[1].doc.FailedFiles = 0
              /\ output[1].doc.Results = << >>

(* main is between the listing of folder di and the end of its report *)
InFolder ==
    mainPc \in {"batch", "in_batch", "file_delay", "extend", "cooldown", "write"}

(* C29: in the per-folder script the result list holds only results of       *)
(* files of the folder being processed, and every report holds only results  *)
(* of files that lie directly in the report's folder.                        *)
C29_ReportOfOwnFolder ==
    prog = "A" =>
        /\ InFolder =>
              \A i \in 1..Len(all_results) : all_results[i].FilePath.dir = di
        /\ \A w \in 1..Len(output) :
              \A i \in 1..Len(output[w].doc.Results) :
                  output[w].doc.Results[i].FilePath.dir = output[w].dir

(* The reports of two folders are written, the second folder holding two     *)
(* files                                                                     *)
C29_Witness ==
    /\ prog = "A" /\ Len(output) = 2
    /\ output[1].dir = 1 /\ Len(output[1].doc.Results) = 1
    /\ output[2].dir = 2 /\ Len(output[2].doc.Results) = 2

(* C30: the per-folder script takes the folders one after the other in       *)
(* discovery order: the w-th report written is that of the w-th folder,      *)
(* coroutines exist only for files of the current folder and only when the   *)
(* report of every folder before it is written, and a report holds a result  *)
(* for every file of its folder.                                             *)
C30_FoldersInTurn ==
    prog = "A" =>
        /\ \A w \in 1..Len(output) :
              /\ output[w].dir = w
              /\ Len(output[w].doc.Results) = subdirs[w].n
        /\ tasks # << >> =>
              /\ Len(output) = di - 1
              /\ \A k \in 1..Len(tasks) : tasks[k].file.dir = di
        /\ InFolder => Len(output) = di - 1

(* A file of the second folder is in its transcription call; the report of   *)
(* the first folder, of two files, is written                                *)
C30_Witness ==
    /\ prog = "A" /\ di = 2 /\ Len(output) = 1
    /\ Len(output[1].doc.Results) = 2
    /\ \E k \in 1..Len(tasks) : tasks[k].pc = "transcribe" /\ tasks[k].attempt = 1

====
